---- MODULE Spec2Model ----
(***************************************************************************)
(* Bitmap title-texture generator: the font descriptor parser, the glyph   *)
(* layout and text-layer compositor, the highlight mask, its rescaling and *)
(* recolouring, the background tiler and the final composition, as one     *)
(* sequential state machine that follows main().                           *)
(*                                                                         *)
(* Text is a sequence of one-character strings, so that splitting,         *)
(* prefix tests and integer parsing are computed character by character.   *)
(* An image is a record [w, h, px] with px[x][y] the RGBA pixel.           *)
(***************************************************************************)
EXTENDS Integers, Sequences, FiniteSets, TLC

VARIABLES
    pc,               \* position in main()
    utf8_valid,       \* whether the descriptor's bytes are valid UTF-8
    lines,            \* the descriptor lines load_font_data has consumed
    char_data_map,    \* load_font_data's local glyph map
    kerning_map,      \* load_font_data's local kerning map
    error,            \* the error main() returns, [kind |-> "none"] if none
    font_data,        \* main's glyph table (bound when load_font_data returns Ok)
    kerning_pairs,    \* main's kerning table
    font_image,       \* the atlas
    text,             \* the code points to render
    use_kerning,
    scale_factor,     \* [num, den], the f32 scale as a fraction
    total_width,
    canvas_height,
    base_line,
    target_image,
    highlight_image,
    cursor_x,
    last_char_id,     \* <<>> for None, <<id>> for Some(id)
    next_char,        \* index in text of the next character of the placement loop
    placed,           \* the overlay calls of the placement loop, in order
    final_height,
    final_image,
    bg_image,         \* the background tile given to tile_background
    tile_request,     \* [width, height] given to tile_background
    tiled_bg,
    written           \* the image saved to the output file: <<>> or <<image>>

vars == <<pc, utf8_valid, lines, char_data_map, kerning_map, error, font_data, kerning_pairs,
          font_image, text, use_kerning, scale_factor, total_width, canvas_height,
          base_line, target_image, highlight_image, cursor_x, last_char_id,
          next_char, placed, final_height, final_image, bg_image, tile_request,
          tiled_bg, written>>

-----------------------------------------------------------------------------
(* Bounds of the model *)

MaxLines == 3
MaxTextLen == 2
MaxTileWidth == 3
MaxTileHeight == 2
MaxRequestWidth == 7
MaxRequestHeight == 2

-----------------------------------------------------------------------------
(* Character strings *)

PrefixChar == <<"c", "h", "a", "r", " ", "i", "d", "=">>
PrefixKerning == <<"k", "e", "r", "n", "i", "n", "g", " ", "f", "i", "r", "s", "t", "=">>
KeyId == <<"i", "d">>
KeyX == <<"x">>
KeyY == <<"y">>
KeyWidth == <<"w", "i", "d", "t", "h">>
KeyHeight == <<"h", "e", "i", "g", "h", "t">>
KeyYoffset == <<"y", "o", "f", "f", "s", "e", "t">>
KeyXadvance == <<"x", "a", "d", "v", "a", "n", "c", "e">>
KeyFirst == <<"f", "i", "r", "s", "t">>
KeySecond == <<"s", "e", "c", "o", "n", "d">>
KeyAmount == <<"a", "m", "o", "u", "n", "t">>
KeyXoffset == <<"x", "o", "f", "f", "s", "e", "t">>
KeyPage == <<"p", "a", "g", "e">>
WordChar == <<"c", "h", "a", "r">>
WordKerning == <<"k", "e", "r", "n", "i", "n", "g">>
U32MaxDigits == <<"4", "2", "9", "4", "9", "6", "7", "2", "9", "5">>
I32MaxDigits == <<"2", "1", "4", "7", "4", "8", "3", "6", "4", "7">>
I32MinDigits == <<"2", "1", "4", "7", "4", "8", "3", "6", "4", "8">>

Digits == <<"0", "1", "2", "3", "4", "5", "6", "7", "8", "9">>

IsDigit(c) == \E i \in DOMAIN Digits : Digits[i] = c

DigitValue(c) == (CHOOSE i \in DOMAIN Digits : Digits[i] = c) - 1

IsWhitespace(c) == c \in {" ", "\t"}

StartsWith(s, prefix) ==
    /\ Len(s) >= Len(prefix)
    /\ SubSeq(s, 1, Len(prefix)) = prefix

\* str::split_whitespace: the maximal runs of non-whitespace characters,
\* in order.
TokenStarts(s) ==
    {i \in DOMAIN s : ~IsWhitespace(s[i]) /\ (i = 1 \/ IsWhitespace(s[i - 1]))}

TokenEnd(s, i) ==
    CHOOSE j \in i..Len(s) :
        /\ \A k \in i..j : ~IsWhitespace(s[k])
        /\ (j = Len(s) \/ IsWhitespace(s[j + 1]))

NthStart(starts, n) ==
    CHOOSE i \in starts : Cardinality({j \in starts : j < i}) = n - 1

TokensAt(s, starts) ==
    [n \in 1..Cardinality(starts) |->
        SubSeq(s, NthStart(starts, n), TokenEnd(s, NthStart(starts, n)))]

SplitWhitespace(s) == TokensAt(s, TokenStarts(s))

ContainsEq(part) == \E i \in DOMAIN part : part[i] = "="

\* Position of the first "=" at or after position from, Len(part) + 1 if none.
FirstEq(part, from) ==
    IF \E i \in from..Len(part) : part[i] = "="
    THEN CHOOSE i \in from..Len(part) :
             /\ part[i] = "="
             /\ \A j \in from..(i - 1) : part[j] # "="
    ELSE Len(part) + 1

\* part.split('=') : the first and the second piece.
SplitKey(part) == SubSeq(part, 1, FirstEq(part, 1) - 1)

PieceAfter(part, e) == SubSeq(part, e + 1, FirstEq(part, e + 1) - 1)

SplitValue(part) == PieceAfter(part, FirstEq(part, 1))

LastWithKey(toks, k) ==
    CHOOSE i \in DOMAIN toks :
        /\ SplitKey(toks[i]) = k
        /\ \A j \in DOMAIN toks : SplitKey(toks[j]) = k => j <= i

\* The key/value map the tokens are collected into; a later token with the
\* same key replaces an earlier one.
PartsOf(toks) ==
    [k \in {SplitKey(toks[i]) : i \in DOMAIN toks} |->
        SplitValue(toks[LastWithKey(toks, k)])]

\* line.split_whitespace().filter(|part| part.contains('=')).map(..).collect()
LineParts(line) == PartsOf(SelectSeq(SplitWhitespace(line), ContainsEq))

FirstNonZero(s) ==
    CHOOSE i \in DOMAIN s : s[i] # "0" /\ \A j \in 1..(i - 1) : s[j] = "0"

StripZeros(s) ==
    IF \A i \in DOMAIN s : s[i] = "0" THEN <<>>
    ELSE SubSeq(s, FirstNonZero(s), Len(s))

RECURSIVE DigitsValueTo(_, _)
DigitsValueTo(s, n) ==
    IF n = 0 THEN 0 ELSE 10 * DigitsValueTo(s, n - 1) + DigitValue(s[n])

DigitsValue(s) == DigitsValueTo(s, Len(s))

\* a <= b for digit strings of equal length
DigitsLeq(a, b) ==
    \/ a = b
    \/ \E i \in DOMAIN a :
           /\ DigitValue(a[i]) < DigitValue(b[i])
           /\ \A j \in 1..(i - 1) : a[j] = b[j]

FitsIn(sig, maxDigits) ==
    \/ Len(sig) < Len(maxDigits)
    \/ Len(sig) = Len(maxDigits) /\ DigitsLeq(sig, maxDigits)

\* The largest magnitude of the type, as digits.
TypeLimit(neg, signed) ==
    IF ~signed THEN U32MaxDigits ELSE IF neg THEN I32MinDigits ELSE I32MaxDigits

HasSign(s, signed) == s # <<>> /\ (Head(s) = "+" \/ (signed /\ Head(s) = "-"))

IsNegative(s, signed) == signed /\ s # <<>> /\ Head(s) = "-"

Unsigned(s, signed) == IF HasSign(s, signed) THEN Tail(s) ELSE s

ParseDigits(body, neg, signed) ==
    IF /\ body # <<>>
       /\ \A i \in DOMAIN body : IsDigit(body[i])
       /\ FitsIn(StripZeros(body), TypeLimit(neg, signed))
    THEN [ok |-> TRUE,
          value |-> IF neg THEN 0 - DigitsValue(body) ELSE DigitsValue(body)]
    ELSE [ok |-> FALSE, value |-> 0]

\* str::parse::<u32>() and str::parse::<i32>(): an optional sign ("+" for
\* both, "-" for the signed type only), then at least one decimal digit and
\* nothing else, the value within the type's range.
ParseInteger(s, signed) ==
    ParseDigits(Unsigned(s, signed), IsNegative(s, signed), signed)

NoError == [kind |-> "none", key |-> <<>>]

FieldResult(key, r) ==
    IF r.ok
    THEN [ok |-> TRUE, value |-> r.value, error |-> NoError]
    ELSE [ok |-> FALSE, value |-> 0, error |-> [kind |-> "parse", key |-> key]]

\* A lookup that takes 0 for a key the line does not have
GetField_Default(parts, key, signed) ==
    IF key \notin DOMAIN parts
    THEN [ok |-> TRUE, value |-> 0, error |-> NoError]
    ELSE FieldResult(key, ParseInteger(parts[key], signed))

\* parts.get(key).ok_or(..)?.parse().map_err(..)?
GetField(parts, key, signed) ==
    IF key \notin DOMAIN parts
    THEN [ok |-> FALSE, value |-> 0, error |-> [kind |-> "not found", key |-> key]]
    ELSE FieldResult(key, ParseInteger(parts[key], signed))

\* The fields of a line, in the order the code reads them.
ParseFields(parts, fields) ==
    [i \in DOMAIN fields |-> GetField(parts, fields[i].key, fields[i].signed)]

\* The first failure among the fields: the `?` that returns.
FirstError(rs) ==
    IF \A i \in DOMAIN rs : rs[i].ok THEN NoError
    ELSE rs[CHOOSE i \in DOMAIN rs : ~rs[i].ok /\ \A j \in 1..(i - 1) : rs[j].ok].error

CharFields ==
    << [key |-> KeyId, signed |-> FALSE], [key |-> KeyX, signed |-> FALSE],
       [key |-> KeyY, signed |-> FALSE], [key |-> KeyWidth, signed |-> FALSE],
       [key |-> KeyHeight, signed |-> FALSE], [key |-> KeyYoffset, signed |-> TRUE],
       [key |-> KeyXadvance, signed |-> FALSE] >>

KerningFields ==
    << [key |-> KeyFirst, signed |-> FALSE], [key |-> KeySecond, signed |-> FALSE],
       [key |-> KeyAmount, signed |-> TRUE] >>

CharResult(rs) ==
    [ok |-> \A i \in DOMAIN rs : rs[i].ok,
     error |-> FirstError(rs),
     value |-> [id |-> rs[1].value, x |-> rs[2].value, y |-> rs[3].value,
                width |-> rs[4].value, height |-> rs[5].value,
                yoffset |-> rs[6].value, xadvance |-> rs[7].value]]

parse_char_line(line) == CharResult(ParseFields(LineParts(line), CharFields))

KerningResult(rs) ==
    [ok |-> \A i \in DOMAIN rs : rs[i].ok,
     error |-> FirstError(rs),
     value |-> [first |-> rs[1].value, second |-> rs[2].value, amount |-> rs[3].value]]

parse_kerning_line(line) == KerningResult(ParseFields(LineParts(line), KerningFields))

\* An insert that keeps the entry already present
Insert_KeepFirst(m, k, v) ==
    [x \in (DOMAIN m) \cup {k} |-> IF x \in DOMAIN m THEN m[x] ELSE v]

\* HashMap::insert
Insert(m, k, v) == [x \in (DOMAIN m) \cup {k} |-> IF x = k THEN v ELSE m[x]]

EmptyMap == [x \in {} |-> 0]

-----------------------------------------------------------------------------
(* The descriptor lines the model reads.  A line is written out from a     *)
(* record of integers in decimal, so that what the parser returns can be   *)
(* compared with what the line says.                                       *)

RECURSIVE DecNat(_)
DecNat(n) ==
    IF n < 10 THEN <<Digits[n + 1]>>
    ELSE DecNat(n \div 10) \o <<Digits[(n % 10) + 1]>>

Dec(n) == IF n < 0 THEN <<"-">> \o DecNat(0 - n) ELSE DecNat(n)

Field(key, value) == key \o <<"=">> \o value

\* "char id=65 x=0 y=0 width=8 height=8 yoffset=0 xadvance=10"
CharLine(g) ==
    WordChar \o <<" ">> \o Field(KeyId, Dec(g.id))
             \o <<" ">> \o Field(KeyX, Dec(g.x))
             \o <<" ">> \o Field(KeyY, Dec(g.y))
             \o <<" ">> \o Field(KeyWidth, Dec(g.width))
             \o <<" ">> \o Field(KeyHeight, Dec(g.height))
             \o <<" ">> \o Field(KeyYoffset, Dec(g.yoffset))
             \o <<" ">> \o Field(KeyXadvance, Dec(g.xadvance))

\* The layout the font tool writes: padded columns and keys the parser
\* does not read.
CharLineWide(g) ==
    WordChar \o <<" ">> \o Field(KeyId, Dec(g.id))
             \o <<" ", " ", " ">> \o Field(KeyX, Dec(g.x))
             \o <<" ", " ">> \o Field(KeyY, Dec(g.y))
             \o <<" ", " ">> \o Field(KeyWidth, Dec(g.width))
             \o <<" ", " ">> \o Field(KeyHeight, Dec(g.height))
             \o <<" ", " ">> \o Field(KeyXoffset, <<"0">>)
             \o <<" ", " ">> \o Field(KeyYoffset, Dec(g.yoffset))
             \o <<" ", " ">> \o Field(KeyXadvance, Dec(g.xadvance))
             \o <<" ", " ">> \o Field(KeyPage, <<"0">>)

\* "kerning first=65 second=66 amount=-1"
KerningLine(k) ==
    WordKerning \o <<" ">> \o Field(KeyFirst, Dec(k.first))
                \o <<" ">> \o Field(KeySecond, Dec(k.second))
                \o <<" ">> \o Field(KeyAmount, Dec(k.amount))

GlyphA == [id |-> 65, x |-> 0, y |-> 0, width |-> 8, height |-> 8,
           yoffset |-> 0, xadvance |-> 10]
GlyphA2 == [id |-> 65, x |-> 1, y |-> 0, width |-> 3, height |-> 2,
            yoffset |-> -1, xadvance |-> 4]
GlyphB == [id |-> 66, x |-> 0, y |-> 0, width |-> 1, height |-> 1,
           yoffset |-> 14, xadvance |-> 1]

GlyphRecords == {GlyphA, GlyphA2, GlyphB}

KernAB == [first |-> 65, second |-> 66, amount |-> -1]
KernAB2 == [first |-> 65, second |-> 66, amount |-> 2]
KernBA == [first |-> 66, second |-> 65, amount |-> -1]

KerningRecords == {KernAB, KernAB2, KernBA}

\* The written form of each record: GlyphB in the padded layout.
GlyphLine(g) == IF g = GlyphB THEN CharLineWide(g) ELSE CharLine(g)

GoodCharLines == {GlyphLine(g) : g \in GlyphRecords}

GoodKerningLines == {KerningLine(k) : k \in KerningRecords}

\* Lines of neither kind: "chars count=2" and the empty line.
OtherLines ==
    { <<"c", "h", "a", "r", "s", " ", "c", "o", "u", "n", "t", "=", "2">>, <<>> }

\* A char line without its xadvance, one whose width is negative, a kerning
\* line without its amount and one whose amount is not a number.
LineNoXadvance ==
    WordChar \o <<" ">> \o Field(KeyId, Dec(65)) \o <<" ">> \o Field(KeyX, Dec(0))
             \o <<" ">> \o Field(KeyY, Dec(0)) \o <<" ">> \o Field(KeyWidth, Dec(8))
             \o <<" ">> \o Field(KeyHeight, Dec(8)) \o <<" ">> \o Field(KeyYoffset, Dec(0))

LineBadWidth == CharLine([GlyphA EXCEPT !.width = -8])

LineNoAmount ==
    WordKerning \o <<" ">> \o Field(KeyFirst, Dec(65)) \o <<" ">> \o Field(KeySecond, Dec(66))

LineBadAmount ==
    LineNoAmount \o <<" ">> \o Field(KeyAmount, <<"x">>)

BadLines == {LineNoXadvance, LineBadWidth, LineNoAmount, LineBadAmount}

LineSet == GoodCharLines \cup GoodKerningLines \cup OtherLines \cup BadLines

-----------------------------------------------------------------------------
(* load_font_data *)

LoadState(ok, err, chars, kerning) ==
    [ok |-> ok, error |-> err, char_data_map |-> chars, kerning_pairs |-> kerning]

InsertChar(st, r) ==
    IF r.ok
    THEN LoadState(TRUE, NoError, Insert(st.char_data_map, r.value.id, r.value),
                   st.kerning_pairs)
    ELSE LoadState(FALSE, r.error, EmptyMap, EmptyMap)

InsertKerning(st, r) ==
    IF r.ok
    THEN LoadState(TRUE, NoError, st.char_data_map,
                   Insert(st.kerning_pairs, <<r.value.first, r.value.second>>,
                          r.value.amount))
    ELSE LoadState(FALSE, r.error, EmptyMap, EmptyMap)

\* One iteration of the loop over the lines; an error ends the function and
\* drops both maps.
LoadLine(st, line) ==
    IF StartsWith(line, PrefixChar) THEN InsertChar(st, parse_char_line(line))
    ELSE IF StartsWith(line, PrefixKerning) THEN InsertKerning(st, parse_kerning_line(line))
    ELSE st

RECURSIVE LoadLines(_, _)
LoadLines(st, ls) ==
    IF ls = <<>> \/ ~st.ok THEN st
    ELSE LoadLines(LoadLine(st, Head(ls)), Tail(ls))

\* load_font_data on a descriptor that is valid UTF-8 with these lines
load_font_data(ls) == LoadLines(LoadState(TRUE, NoError, EmptyMap, EmptyMap), ls)

-----------------------------------------------------------------------------
(* Images *)

Max(a, b) == IF a >= b THEN a ELSE b

Min(a, b) == IF a <= b THEN a ELSE b

saturating_sub(a, b) == IF a >= b THEN a - b ELSE 0

Transparent == <<0, 0, 0, 0>>

\* RgbaImage::new: every pixel transparent black
NewImage(w, h) ==
    [w |-> w, h |-> h, px |-> [x \in 0..(w - 1) |-> [y \in 0..(h - 1) |-> Transparent]]]

\* The image a variable holds before the code assigns one
NoImage == NewImage(0, 0)

\* Pixel::blend for Rgba<u8>, source-over.  A transparent source leaves the
\* destination, an opaque source replaces it; otherwise the f32 formula, here
\* in exact arithmetic on the 0..255 scale and truncated as the cast does.
Blend(bg, fg) ==
    IF fg[4] = 0 THEN bg
    ELSE IF fg[4] = 255 THEN fg
    ELSE LET den == 255 * (bg[4] + fg[4]) - bg[4] * fg[4]
             ch(i) == (255 * fg[i] * fg[4] + bg[i] * bg[4] * (255 - fg[4])) \div den
         IN  <<ch(1), ch(2), ch(3), den \div 255>>

\* imageops::overlay(bottom, top, x, y): the part of top that falls inside
\* bottom is blended onto it.
Overlay(bottom, top, x, y) ==
    [bottom EXCEPT !.px =
        [bx \in 0..(bottom.w - 1) |->
            [by \in 0..(bottom.h - 1) |->
                IF /\ bx - x >= 0 /\ bx - x < top.w
                   /\ by - y >= 0 /\ by - y < top.h
                THEN Blend(bottom.px[bx][by], top.px[bx - x][by - y])
                ELSE bottom.px[bx][by]]]]

\* DynamicImage::crop_imm: the rectangle is cut back to the image's bounds.
CropImm(img, x, y, width, height) ==
    LET cx == Min(x, img.w)
        cy == Min(y, img.h)
        cw == Min(width, img.w - cx)
        chh == Min(height, img.h - cy)
    IN  [w |-> cw, h |-> chh,
         px |-> [i \in 0..(cw - 1) |-> [j \in 0..(chh - 1) |-> img.px[cx + i][cy + j]]]]

\* imageops::resize with FilterType::Nearest: each output pixel is the source
\* pixel under its centre.
ResizeNearest(img, nwidth, nheight) ==
    LET sx(x) == Min(img.w - 1, ((2 * x + 1) * img.w) \div (2 * nwidth))
        sy(y) == Min(img.h - 1, ((2 * y + 1) * img.h) \div (2 * nheight))
    IN  [w |-> nwidth, h |-> nheight,
         px |-> [x \in 0..(nwidth - 1) |->
                    [y \in 0..(nheight - 1) |-> img.px[sx(x)][sy(y)]]]]

-----------------------------------------------------------------------------
(* render_text *)

BaselineColor == <<255, 0, 0, 255>>
HighlightColor == <<0, 255, 0, 128>>
Cyan == <<0, 255, 255, 0>>
Purple == <<128, 0, 128, 0>>

\* AddGlyphSize with the cursor's reduction (3) in place of the canvas's (2)
AddGlyphSize_Minus3(fd, acc, ch) ==
    IF ch \in DOMAIN fd
    THEN << acc[1] + saturating_sub(fd[ch].xadvance, 3),
            Max(acc[2], fd[ch].height + fd[ch].yoffset) >>
    ELSE acc

\* One step of the fold over the text: (width, height) after character ch.
AddGlyphSize(fd, acc, ch) ==
    IF ch \in DOMAIN fd
    THEN << acc[1] + saturating_sub(fd[ch].xadvance, 2),
            Max(acc[2], fd[ch].height + fd[ch].yoffset) >>
    ELSE acc

RECURSIVE FoldSize(_, _, _)
FoldSize(fd, acc, t) ==
    IF t = <<>> THEN acc
    ELSE FoldSize(fd, AddGlyphSize(fd, acc, Head(t)), Tail(t))

\* (total_width, max_height)
TextSize(fd, t) == FoldSize(fd, <<0, 0>>, t)

CanvasHeight(fd, t) == TextSize(fd, t)[2] + 10

BaseLine(fd) ==
    IF DOMAIN fd = {} THEN 5
    ELSE (CHOOSE m \in {fd[k].yoffset : k \in DOMAIN fd} :
              \A k \in DOMAIN fd : fd[k].yoffset <= m) + 5

\* The row put_pixel is asked to write, base_line as u32, is inside the
\* image; a negative base_line casts to a row beyond any image.
BaselineInBounds(bl, img) == bl >= 0 /\ bl < img.h

PaintBaselineRow(img, bl) ==
    [img EXCEPT !.px = [x \in 0..(img.w - 1) |->
                           [img.px[x] EXCEPT ![bl] = BaselineColor]]]

\* A kerning step that does not look at the flag
KernedCursor_AnyFlag(kp, kerning_on, cur, last, ch) ==
    IF last # <<>> /\ <<last[1], ch>> \in DOMAIN kp
    THEN Max(cur + kp[<<last[1], ch>>], 0)
    ELSE cur

\* The cursor after the kerning step for character ch.
KernedCursor(kp, kerning_on, cur, last, ch) ==
    IF kerning_on /\ last # <<>> /\ <<last[1], ch>> \in DOMAIN kp
    THEN Max(cur + kp[<<last[1], ch>>], 0)
    ELSE cur

CropX(cd) == cd.x + 1

CropWidth(cd) == Max(saturating_sub(cd.width, 2), 1)

\* A glyph hung from the baseline row instead of standing on it
RenderY_AtBaseline(bl, cd) == bl + cd.yoffset

RenderY(bl, cd) == bl - cd.height - cd.yoffset

\* A cursor advance with the reduction of the width pass
AdvanceOf_Minus2(cd) == saturating_sub(cd.xadvance, 2)

AdvanceOf(cd) == saturating_sub(cd.xadvance, 3)

\* An iteration that moves the cursor by one pixel for a code point without
\* a glyph
PlaceChar_StepAbsent(fd, kp, atlas, kerning_on, bl, st, ch) ==
    LET cur == KernedCursor(kp, kerning_on, st.cursor_x, st.last_char_id, ch)
    IN  IF ch \in DOMAIN fd
        THEN LET cd == fd[ch]
                 char_img == CropImm(atlas, CropX(cd), cd.y, CropWidth(cd), cd.height)
             IN  [target_image |-> Overlay(st.target_image, char_img, cur, RenderY(bl, cd)),
                  cursor_x |-> cur + AdvanceOf(cd),
                  last_char_id |-> <<ch>>,
                  placed |-> Append(st.placed,
                                 [crop_x |-> CropX(cd), crop_y |-> cd.y,
                                  crop_width |-> CropWidth(cd), crop_height |-> cd.height,
                                  x |-> cur, y |-> RenderY(bl, cd)])]
        ELSE [st EXCEPT !.cursor_x = cur + 1, !.last_char_id = <<ch>>]

\* One iteration of the placement loop, on the loop's state
\* [target_image, cursor_x, last_char_id, placed].
PlaceChar(fd, kp, atlas, kerning_on, bl, st, ch) ==
    LET cur == KernedCursor(kp, kerning_on, st.cursor_x, st.last_char_id, ch)
    IN  IF ch \in DOMAIN fd
        THEN LET cd == fd[ch]
                 char_img == CropImm(atlas, CropX(cd), cd.y, CropWidth(cd), cd.height)
             IN  [target_image |-> Overlay(st.target_image, char_img, cur, RenderY(bl, cd)),
                  cursor_x |-> cur + AdvanceOf(cd),
                  last_char_id |-> <<ch>>,
                  placed |-> Append(st.placed,
                                 [crop_x |-> CropX(cd), crop_y |-> cd.y,
                                  crop_width |-> CropWidth(cd), crop_height |-> cd.height,
                                  x |-> cur, y |-> RenderY(bl, cd)])]
        ELSE [st EXCEPT !.cursor_x = cur, !.last_char_id = <<ch>>]

\* A column scan that counts the baseline's colour as ink
ColumnHasText_AnyInk(img, x) ==
    \E y \in 0..(img.h - 1) : img.px[x][y][4] # 0

ColumnHasText(img, x) ==
    \E y \in 0..(img.h - 1) : img.px[x][y][4] # 0 /\ img.px[x][y] # BaselineColor

BuildHighlight(target, highlight) ==
    [highlight EXCEPT !.px =
        [x \in 0..(highlight.w - 1) |->
            IF ColumnHasText(target, x)
            THEN [y \in 0..(highlight.h - 1) |-> HighlightColor]
            ELSE highlight.px[x]]]

\* (canvas_height as f32 * scale_factor).round() as u32, halves rounding up
NewHeight(ch, scale) == (2 * ch * scale.num + scale.den) \div (2 * scale.den)

\* FinalHeight without the clamp to 32 rows
FinalHeight_NoClamp(ch, scale) == NewHeight(ch, scale)

FinalHeight(ch, scale) == Min(NewHeight(ch, scale), 32)

\* A recolouring that writes the band colour with its own alpha
RecolorPixel_OwnAlpha(p, y) ==
    IF y >= 27 /\ y <= 32 THEN Cyan
    ELSE IF y >= 21 /\ y <= 25 THEN Purple
    ELSE p

RecolorPixel(p, y) ==
    IF y >= 27 /\ y <= 32 THEN <<Cyan[1], Cyan[2], Cyan[3], p[4]>>
    ELSE IF y >= 21 /\ y <= 25 THEN <<Purple[1], Purple[2], Purple[3], p[4]>>
    ELSE p

Recolor(img) ==
    [img EXCEPT !.px = [x \in 0..(img.w - 1) |->
                           [y \in 0..(img.h - 1) |-> RecolorPixel(img.px[x][y], y)]]]

ComposeFinal(highlight, target, w, h) ==
    Overlay(Overlay(NewImage(w, h), highlight, 0, 0), target, 0, 0)

\* render_text as a function of its arguments: the image it returns, or the
\* panic of the baseline loop.
RECURSIVE PlaceAll(_, _, _, _, _, _, _)
PlaceAll(fd, kp, atlas, kerning_on, bl, st, t) ==
    IF t = <<>> THEN st
    ELSE PlaceAll(fd, kp, atlas, kerning_on, bl,
                  PlaceChar(fd, kp, atlas, kerning_on, bl, st, Head(t)), Tail(t))

InitialCanvas(fd, t) == NewImage(TextSize(fd, t)[1], CanvasHeight(fd, t))

LoopStart(img, bl) ==
    [target_image |-> IF img.w > 0 THEN PaintBaselineRow(img, bl) ELSE img,
     cursor_x |-> 0, last_char_id |-> <<>>, placed |-> <<>>]

MaskOf(target, scale) ==
    Recolor(ResizeNearest(BuildHighlight(target, NewImage(target.w, target.h)),
                          target.w, FinalHeight(target.h, scale)))

FinishRender(target, scale) ==
    ComposeFinal(MaskOf(target, scale), target, target.w, FinalHeight(target.h, scale))

render_text(fd, kp, atlas, t, kerning_on, scale) ==
    IF TextSize(fd, t)[1] > 0 /\ ~BaselineInBounds(BaseLine(fd), InitialCanvas(fd, t))
    THEN [panic |-> TRUE, image |-> NoImage]
    ELSE [panic |-> FALSE,
          image |-> FinishRender(
                        PlaceAll(fd, kp, atlas, kerning_on, BaseLine(fd),
                                 LoopStart(InitialCanvas(fd, t), BaseLine(fd)),
                                 t).target_image,
                        scale)]

-----------------------------------------------------------------------------
(* tile_background *)

\* A tile count that rounds down
NumHorizontalTiles_Floor(width, bg_width) == Max(width \div bg_width, 1)

NumHorizontalTiles(width, bg_width) == Max((width + bg_width - 1) \div bg_width, 1)

TiledWidth(width, bg_width) == NumHorizontalTiles(width, bg_width) * bg_width

\* The tile is overlaid at every (i * bg_width, j * bg_height) inside the
\* canvas, so the canvas pixel (x, y) receives the tile's pixel
\* (x mod bg_width, y mod bg_height), from the tile placed at
\* (x - x mod bg_width, y - y mod bg_height).
tile_background(bg, width, height) ==
    LET tiled_width == TiledWidth(width, bg.w)
    IN  [w |-> tiled_width, h |-> height,
         px |-> [x \in 0..(tiled_width - 1) |->
                    [y \in 0..(height - 1) |->
                        Blend(Transparent, bg.px[x % bg.w][y % bg.h])]]]

-----------------------------------------------------------------------------
(* The inputs of a run *)

Alphabet == {65, 66}

TextSet == UNION {[1..n -> Alphabet] : n \in 0..MaxTextLen}

White == <<255, 255, 255, 255>>

\* An atlas whose every pixel is opaque ink.
AtlasSolid ==
    [w |-> 8, h |-> 8, px |-> [x \in 0..7 |-> [y \in 0..7 |-> White]]]

\* An atlas with an empty column, a column of ink in the baseline's colour
\* and dotted columns.
AtlasInk ==
    [w |-> 8, h |-> 8,
     px |-> [x \in 0..7 |-> [y \in 0..7 |->
                IF x = 1 THEN Transparent
                ELSE IF x = 2 THEN BaselineColor
                ELSE IF (x + y) % 2 = 0 THEN White ELSE Transparent]]]

AtlasSet == {AtlasSolid, AtlasInk}

\* 1.0, 1.5 (the factor main passes) and 2.0
ScaleSet == {[num |-> 1, den |-> 1], [num |-> 3, den |-> 2], [num |-> 2, den |-> 1]}

Checker(w, h) ==
    [w |-> w, h |-> h,
     px |-> [x \in 0..(w - 1) |-> [y \in 0..(h - 1) |->
                IF (x + y) % 2 = 0 THEN <<200, 200, 200, 255>> ELSE <<100, 100, 100, 255>>]]]

TileSet == {Checker(3, 2), Checker(16, 16)}

-----------------------------------------------------------------------------
(* main *)

\* The values the variables hold before the code assigns them.
Unset ==
    /\ lines = <<>>
    /\ char_data_map = EmptyMap
    /\ kerning_map = EmptyMap
    /\ error = NoError
    /\ font_data = EmptyMap
    /\ kerning_pairs = EmptyMap
    /\ font_image = NoImage
    /\ text = <<>>
    /\ use_kerning = FALSE
    /\ scale_factor = [num |-> 1, den |-> 1]
    /\ total_width = 0
    /\ canvas_height = 0
    /\ base_line = 0
    /\ target_image = NoImage
    /\ highlight_image = NoImage
    /\ cursor_x = 0
    /\ last_char_id = <<>>
    /\ next_char = 1
    /\ placed = <<>>
    /\ final_height = 0
    /\ final_image = NoImage
    /\ tiled_bg = NoImage
    /\ written = <<>>

Init ==
    /\ pc = "from_utf8"
    /\ utf8_valid \in BOOLEAN
    /\ bg_image = NoImage
    /\ tile_request = [width |-> 0, height |-> 0]
    /\ Unset

loadVars == <<utf8_valid, lines, char_data_map, kerning_map, error, font_data, kerning_pairs>>

renderVars == <<font_image, text, use_kerning, scale_factor, total_width, canvas_height,
                base_line, target_image, highlight_image, cursor_x, last_char_id,
                next_char, placed, final_height, final_image>>

outVars == <<bg_image, tile_request, tiled_bg, written>>

\* std::str::from_utf8(font_data_bytes)? : the bytes are valid UTF-8 or the
\* function returns the encoding error.
FromUtf8 ==
    /\ pc = "from_utf8"
    /\ IF utf8_valid
       THEN pc' = "lines" /\ error' = error
       ELSE pc' = "error" /\ error' = [kind |-> "utf8", key |-> <<>>]
    /\ UNCHANGED <<utf8_valid, lines, char_data_map, kerning_map, font_data, kerning_pairs>>
    /\ UNCHANGED renderVars
    /\ UNCHANGED outVars

\* One iteration of `for line in font_data_str.lines()`.
ReadLine ==
    /\ pc = "lines"
    /\ Len(lines) < MaxLines
    /\ \E line \in LineSet :
           \E st \in {LoadLine(LoadState(TRUE, NoError, char_data_map, kerning_map), line)} :
               /\ lines' = Append(lines, line)
               /\ char_data_map' = st.char_data_map
               /\ kerning_map' = st.kerning_pairs
               /\ error' = st.error
               /\ pc' = IF st.ok THEN "lines" ELSE "error"
    /\ UNCHANGED <<utf8_valid, font_data, kerning_pairs>>
    /\ UNCHANGED renderVars
    /\ UNCHANGED outVars

\* Ok((char_data_map, kerning_pairs)), bound by main: the maps move to the
\* caller and the function's view of the descriptor ends.
ReturnTables ==
    /\ pc = "lines"
    /\ pc' = "loaded"
    /\ font_data' = char_data_map
    /\ kerning_pairs' = kerning_map
    /\ char_data_map' = EmptyMap
    /\ kerning_map' = EmptyMap
    /\ lines' = <<>>
    /\ UNCHANGED <<utf8_valid, error>>
    /\ UNCHANGED renderVars
    /\ UNCHANGED outVars

\* render_text is entered: the size fold, the two canvases, the baseline row
\* index.  The dialog's text and flag, the atlas and the scale factor are the
\* call's arguments.
RenderTextCall ==
    /\ pc = "loaded"
    /\ \E t \in TextSet, k \in BOOLEAN, a \in AtlasSet, s \in ScaleSet :
           /\ text' = t
           /\ use_kerning' = k
           /\ font_image' = a
           /\ scale_factor' = s
           /\ total_width' = TextSize(font_data, t)[1]
           /\ canvas_height' = CanvasHeight(font_data, t)
           /\ target_image' = NewImage(TextSize(font_data, t)[1], CanvasHeight(font_data, t))
           /\ highlight_image' = NewImage(TextSize(font_data, t)[1], CanvasHeight(font_data, t))
    /\ base_line' = BaseLine(font_data)
    /\ pc' = "baseline"
    /\ UNCHANGED <<utf8_valid, lines, char_data_map, kerning_map, error, font_data, kerning_pairs>>
    /\ UNCHANGED <<cursor_x, last_char_id, next_char, placed, final_height, final_image>>
    /\ UNCHANGED outVars

\* for x in 0..total_width { target_image.put_pixel(x, base_line as u32, red) }
\* put_pixel panics on a row outside the image.
PaintBaseline ==
    /\ pc = "baseline"
    /\ IF total_width > 0 /\ ~BaselineInBounds(base_line, target_image)
       THEN /\ pc' = "panic"
            /\ UNCHANGED target_image
       ELSE /\ pc' = "place"
            /\ target_image' = IF total_width > 0
                               THEN PaintBaselineRow(target_image, base_line)
                               ELSE target_image
    /\ cursor_x' = 0
    /\ last_char_id' = <<>>
    /\ UNCHANGED loadVars
    /\ UNCHANGED <<font_image, text, use_kerning, scale_factor, total_width, canvas_height,
                   base_line, highlight_image, next_char, placed, final_height, final_image>>
    /\ UNCHANGED outVars

\* One iteration of `for ch in text.chars()`.
PlaceGlyph ==
    /\ pc = "place"
    /\ next_char <= Len(text)
    /\ LET st == PlaceChar(font_data, kerning_pairs, font_image, use_kerning, base_line,
                           [target_image |-> target_image, cursor_x |-> cursor_x,
                            last_char_id |-> last_char_id, placed |-> placed],
                           text[next_char])
       IN  /\ target_image' = st.target_image
           /\ cursor_x' = st.cursor_x
           /\ last_char_id' = st.last_char_id
           /\ placed' = st.placed
    /\ next_char' = next_char + 1
    /\ UNCHANGED pc
    /\ UNCHANGED loadVars
    /\ UNCHANGED <<font_image, text, use_kerning, scale_factor, total_width, canvas_height,
                   base_line, highlight_image, final_height, final_image>>
    /\ UNCHANGED outVars

\* The column scan that fills the highlight mask.
Highlight ==
    /\ pc = "place"
    /\ next_char > Len(text)
    /\ highlight_image' = BuildHighlight(target_image, highlight_image)
    /\ pc' = "resize"
    /\ UNCHANGED loadVars
    /\ UNCHANGED <<font_image, text, use_kerning, scale_factor, total_width, canvas_height,
                   base_line, target_image, cursor_x, last_char_id, next_char, placed,
                   final_height, final_image>>
    /\ UNCHANGED outVars

\* new_height, final_height and the nearest-neighbour resize of the mask.
Resize ==
    /\ pc = "resize"
    /\ final_height' = FinalHeight(canvas_height, scale_factor)
    /\ highlight_image' = ResizeNearest(highlight_image, total_width,
                                        FinalHeight(canvas_height, scale_factor))
    /\ pc' = "recolor"
    /\ UNCHANGED loadVars
    /\ UNCHANGED <<font_image, text, use_kerning, scale_factor, total_width, canvas_height,
                   base_line, target_image, cursor_x, last_char_id, next_char, placed,
                   final_image>>
    /\ UNCHANGED outVars

\* The recolouring pass over the rescaled mask.
RecolorBands ==
    /\ pc = "recolor"
    /\ highlight_image' = Recolor(highlight_image)
    /\ pc' = "compose"
    /\ UNCHANGED loadVars
    /\ UNCHANGED <<font_image, text, use_kerning, scale_factor, total_width, canvas_height,
                   base_line, target_image, cursor_x, last_char_id, next_char, placed,
                   final_height, final_image>>
    /\ UNCHANGED outVars

\* final_image: the mask, then the text canvas, on a new image; Ok(final_image).
Compose ==
    /\ pc = "compose"
    /\ final_image' = ComposeFinal(highlight_image, target_image, total_width, final_height)
    /\ pc' = "rendered"
    /\ UNCHANGED loadVars
    /\ UNCHANGED <<font_image, text, use_kerning, scale_factor, total_width, canvas_height,
                   base_line, target_image, highlight_image, cursor_x, last_char_id,
                   next_char, placed, final_height>>
    /\ UNCHANGED outVars

\* tile_background(&bg_image, text_layer_width, text_layer_height.max(32))
TileBackground ==
    /\ pc = "rendered"
    /\ \E bg \in TileSet :
           /\ bg_image' = bg
           /\ tile_request' = [width |-> final_image.w, height |-> Max(final_image.h, 32)]
           /\ tiled_bg' = tile_background(bg, final_image.w, Max(final_image.h, 32))
    /\ pc' = "tiled"
    /\ UNCHANGED loadVars
    /\ UNCHANGED renderVars
    /\ UNCHANGED written

\* imageops::overlay(&mut tiled_bg, &rendered_image, -1, 0)
OverlayText ==
    /\ pc = "tiled"
    /\ tiled_bg' = Overlay(tiled_bg, final_image, -1, 0)
    /\ pc' = "overlaid"
    /\ UNCHANGED loadVars
    /\ UNCHANGED renderVars
    /\ UNCHANGED <<bg_image, tile_request, written>>

\* fs::create_dir_all and tiled_bg.save
Save ==
    /\ pc = "overlaid"
    /\ written' = <<tiled_bg>>
    /\ pc' = "done"
    /\ UNCHANGED loadVars
    /\ UNCHANGED renderVars
    /\ UNCHANGED <<bg_image, tile_request, tiled_bg>>

Next ==
    \/ FromUtf8
    \/ ReadLine
    \/ ReturnTables
    \/ RenderTextCall
    \/ PaintBaseline
    \/ PlaceGlyph
    \/ Highlight
    \/ Resize
    \/ RecolorBands
    \/ Compose
    \/ TileBackground
    \/ OverlayText
    \/ Save

Spec == Init /\ [][Next]_vars

-----------------------------------------------------------------------------
(* tile_background on its own: every small tile and requested size *)

InitTile ==
    /\ pc = "tile_call"
    /\ utf8_valid = TRUE
    /\ bg_image \in {Checker(w, h) : w \in 1..MaxTileWidth, h \in 1..MaxTileHeight}
    /\ tile_request \in [width : 0..MaxRequestWidth, height : 0..MaxRequestHeight]
    /\ Unset

TileCall ==
    /\ pc = "tile_call"
    /\ tiled_bg' = tile_background(bg_image, tile_request.width, tile_request.height)
    /\ pc' = "tiled"
    /\ UNCHANGED loadVars
    /\ UNCHANGED renderVars
    /\ UNCHANGED <<bg_image, tile_request, written>>

NextTile == TileCall

SpecTile == InitTile /\ [][NextTile]_vars

-----------------------------------------------------------------------------
(* Properties *)

\* render_text has been entered and has allocated its canvases
InRender ==
    pc \in {"baseline", "place", "resize", "recolor", "compose", "rendered",
            "tiled", "overlaid", "done", "panic"}

\* render_text has returned its image
Rendered == pc \in {"rendered", "tiled", "overlaid", "done"}

\* The positions of the text whose character has a glyph
Present(fd, t) == {i \in DOMAIN t : t[i] \in DOMAIN fd}

RECURSIVE SumTo(_, _)
SumTo(f, n) == IF n = 0 THEN 0 ELSE SumTo(f, n - 1) + f[n]

\* Sum of x_advance - 2 over the characters that have a glyph
AdvanceSum(fd, t) ==
    SumTo([i \in DOMAIN t |-> IF t[i] \in DOMAIN fd THEN fd[t[i]].xadvance - 2 ELSE 0],
          Len(t))

\* Sum of max(x_advance - 2, 0) over the characters that have a glyph
ClampedAdvanceSum(fd, t) ==
    SumTo([i \in DOMAIN t |->
              IF t[i] \in DOMAIN fd /\ fd[t[i]].xadvance > 2
              THEN fd[t[i]].xadvance - 2 ELSE 0],
          Len(t))

\* C1 as stated: the text canvas, and the image render_text returns, are as
\* wide as the sum of (x_advance - 2) over the characters that have a glyph.
C1_WidthIsAdvanceSum ==
    /\ InRender => target_image.w = AdvanceSum(font_data, text)
    /\ Rendered => final_image.w = AdvanceSum(font_data, text)

\* C1 amended: the text canvas, and the image render_text returns, are as wide
\* as the sum of max(x_advance - 2, 0) over the characters of the text that
\* have a glyph; characters without a glyph add nothing, so an empty text or
\* one of absent glyphs only has width 0.
C1_WidthIsClampedAdvanceSum ==
    /\ InRender => /\ target_image.w = ClampedAdvanceSum(font_data, text)
                   /\ total_width = target_image.w
                   /\ Present(font_data, text) = {} => target_image.w = 0
    /\ Rendered => final_image.w = ClampedAdvanceSum(font_data, text)

\* A text with a glyph whose advance is below 2 and one whose advance is above
C1_Witness ==
    /\ Rendered
    /\ \E i, j \in Present(font_data, text) :
           font_data[text[i]].xadvance < 2 /\ font_data[text[j]].xadvance > 2

\* The largest height + y_offset among the glyphs of the text, 0 if none
MaxGlyphHeight(fd, t) ==
    IF Present(fd, t) = {} THEN 0
    ELSE CHOOSE m \in {fd[t[i]].height + fd[t[i]].yoffset : i \in Present(fd, t)} :
             \A i \in Present(fd, t) : fd[t[i]].height + fd[t[i]].yoffset <= m

\* The integer nearest to n * scale, halves away from zero
Rounded(n, scale) ==
    CHOOSE r \in 0..(n * scale.num) :
        /\ 2 * scale.den * r <= 2 * n * scale.num + scale.den
        /\ 2 * n * scale.num + scale.den < 2 * scale.den * (r + 1)

ExpectedHeight(fd, t, scale) ==
    Min(Rounded(Max(MaxGlyphHeight(fd, t), 0) + 10, scale), 32)

\* C2 as stated: the image main writes is min(round((max_glyph_height + 10) *
\* scale), 32) rows high.
C2_OutputHeightIsScaledHeight ==
    pc = "done" => written[1].h = ExpectedHeight(font_data, text, scale_factor)

\* C2 amended: the image render_text returns is min(round((max_glyph_height +
\* 10) * scale), 32) rows high, max_glyph_height being the largest of 0 and
\* height + y_offset over the glyphs of the text, and so never above 32; the
\* background is tiled to max(that height, 32) rows, so the image main writes
\* is exactly 32 rows high.
C2_Heights ==
    /\ Rendered => /\ final_image.h = ExpectedHeight(font_data, text, scale_factor)
                   /\ final_image.h <= 32
    /\ pc \in {"tiled", "overlaid"} => tiled_bg.h = 32
    /\ pc = "done" => written[1].h = 32

\* A written image whose text layer was rounded up from a half and is lower
\* than the output
C2_Witness ==
    /\ pc = "done"
    /\ (2 * canvas_height * scale_factor.num) % (2 * scale_factor.den) = scale_factor.den
    /\ final_image.h < written[1].h

\* The record a good char line was written from
WrittenGlyph(line) == CHOOSE g \in GlyphRecords : GlyphLine(g) = line

CharLinesOf(ls) == {i \in DOMAIN ls : StartsWith(ls[i], PrefixChar)}

\* The table holds what the char lines of ls say, the last line of an id
\* deciding its entry.
TableMatches(table, ls) ==
    /\ DOMAIN table = {WrittenGlyph(ls[i]).id : i \in CharLinesOf(ls)}
    /\ \A i \in CharLinesOf(ls) :
           (\A j \in CharLinesOf(ls) :
                WrittenGlyph(ls[j]).id = WrittenGlyph(ls[i]).id => j <= i)
           => table[WrittenGlyph(ls[i]).id] = WrittenGlyph(ls[i])

\* C3 as stated: when load_font_data returns Ok, the table has one entry per
\* line that begins with "char id=", each holding that line's integers.
C3_OneEntryPerCharLine ==
    [][(pc = "lines" /\ pc' = "loaded") =>
          /\ Cardinality(DOMAIN font_data') = Cardinality(CharLinesOf(lines))
          /\ \A i \in CharLinesOf(lines) :
                 font_data'[WrittenGlyph(lines[i]).id] = WrittenGlyph(lines[i])]_vars

\* C3 amended: when load_font_data returns Ok, the table has exactly one entry
\* per distinct id among the lines that begin with "char id=", holding the
\* integers of the last such line with that id (a later line with the same id
\* replaces the earlier entry); lines with any other prefix add no entry.
C3_OneEntryPerId ==
    [][(pc = "lines" /\ pc' = "loaded") => TableMatches(font_data', lines)]_vars

\* The loop has read two different char lines with one id, and a line of
\* another kind
C3_Witness ==
    /\ pc = "lines"
    /\ \E i, j \in CharLinesOf(lines) :
           /\ i < j
           /\ lines[i] # lines[j]
           /\ WrittenGlyph(lines[i]).id = WrittenGlyph(lines[j]).id
    /\ \E i \in DOMAIN lines : i \notin CharLinesOf(lines)
    /\ TableMatches(char_data_map, lines)

\* The descriptor read so far is defective: not UTF-8, or a char or kerning
\* line without a required key or with a value that is not of its type.
Defective == ~utf8_valid \/ \E i \in DOMAIN lines : lines[i] \in BadLines

\* C4: on a defective descriptor load_font_data returns an error and no table,
\* and main stops there: nothing is rendered, tiled or written.
C4_ErrorStopsPipeline ==
    Defective =>
        /\ pc \in {"from_utf8", "error"}
        /\ pc = "error" => error # NoError
        /\ font_data = EmptyMap /\ kerning_pairs = EmptyMap
        /\ pc = "error" => char_data_map = EmptyMap /\ kerning_map = EmptyMap
        /\ target_image = NoImage /\ final_image = NoImage
        /\ tiled_bg = NoImage /\ written = <<>>

\* The error came after good lines had filled the maps
C4_Witness ==
    /\ pc = "error"
    /\ Len(lines) = 3
    /\ lines[3] \in BadLines
    /\ StartsWith(lines[1], PrefixChar)
    /\ StartsWith(lines[2], PrefixKerning)

\* Two consecutive characters of the text, both with glyphs, form a pair of
\* the kerning table
KernedPairInText ==
    \E i \in 1..(Len(text) - 1) :
        /\ <<text[i], text[i + 1]>> \in DOMAIN kerning_pairs
        /\ text[i] \in DOMAIN font_data
        /\ text[i + 1] \in DOMAIN font_data

\* C5: with the kerning flag off, render_text returns (or panics) exactly as it
\* does, flag on or off, with an empty kerning table.
C5_KerningOffIgnoresTable ==
    /\ (pc = "rendered" /\ ~use_kerning) =>
           \A k \in BOOLEAN :
               render_text(font_data, EmptyMap, font_image, text, k, scale_factor)
                   = [panic |-> FALSE, image |-> final_image]
    /\ (pc = "panic" /\ ~use_kerning) =>
           \A k \in BOOLEAN :
               render_text(font_data, EmptyMap, font_image, text, k,
                           scale_factor).panic

\* The flag is off, the table has a pair of the text, and with the flag on
\* the image would be another one
C5_Witness ==
    /\ pc = "rendered"
    /\ ~use_kerning
    /\ KernedPairInText
    /\ render_text(font_data, kerning_pairs, font_image, text, TRUE, scale_factor).image
           # final_image

\* The smallest q with q * w >= n
CeilDiv(n, w) == CHOOSE q \in 0..n : q * w >= n /\ (q = 0 \/ (q - 1) * w < n)

\* C6 as stated: the tiled canvas is max(1, ceil(W / w)) * w wide, a positive
\* multiple of w that is at least W and the smallest multiple of w that is at
\* least W, and H high.
C6_TiledWidthSmallestMultiple ==
    pc = "tiled" =>
        /\ tiled_bg.w = Max(1, CeilDiv(tile_request.width, bg_image.w)) * bg_image.w
        /\ tiled_bg.w > 0 /\ tiled_bg.w % bg_image.w = 0
        /\ tiled_bg.w >= tile_request.width
        /\ \A m \in 0..tiled_bg.w :
               m * bg_image.w >= tile_request.width => tiled_bg.w <= m * bg_image.w
        /\ tiled_bg.h = tile_request.height

\* C6 amended: the tiled canvas is max(1, ceil(W / w)) * w wide, a positive
\* multiple of w that is at least W and the smallest positive multiple of w
\* that is at least W (for W = 0 it is w, not 0); it is H high and is not cut
\* back to W.
C6_TiledWidthSmallestPositiveMultiple ==
    pc = "tiled" =>
        /\ tiled_bg.w = Max(1, CeilDiv(tile_request.width, bg_image.w)) * bg_image.w
        /\ tiled_bg.w > 0 /\ tiled_bg.w % bg_image.w = 0
        /\ tiled_bg.w >= tile_request.width
        /\ \A m \in 1..tiled_bg.w :
               m * bg_image.w >= tile_request.width => tiled_bg.w <= m * bg_image.w
        /\ tiled_bg.h = tile_request.height

\* A requested width that is no multiple of the tile's: the canvas is wider
C6_Witness ==
    /\ pc = "tiled"
    /\ tile_request.width > bg_image.w
    /\ tile_request.width % bg_image.w # 0
    /\ tiled_bg.w > tile_request.width

RGB(p) == <<p[1], p[2], p[3]>>

\* C7: the recolouring pass keeps every pixel's alpha, makes rows 27..32 cyan
\* and rows 21..25 purple, and changes no other row; so at a height of 21 or
\* less nothing changes and at 22 to 27 no row turns cyan.
C7_RecolorBands ==
    [][pc = "recolor" =>
          /\ highlight_image'.w = highlight_image.w
          /\ highlight_image'.h = highlight_image.h
          /\ \A x \in 0..(highlight_image.w - 1), y \in 0..(highlight_image.h - 1) :
                 /\ highlight_image'.px[x][y][4] = highlight_image.px[x][y][4]
                 /\ (y >= 27 /\ y <= 32) => RGB(highlight_image'.px[x][y]) = <<0, 255, 255>>
                 /\ (y >= 21 /\ y <= 25) => RGB(highlight_image'.px[x][y]) = <<128, 0, 128>>
                 /\ (y < 21 \/ y = 26 \/ y > 32) =>
                        highlight_image'.px[x][y] = highlight_image.px[x][y]
          /\ final_height <= 21 => highlight_image' = highlight_image
          /\ final_height <= 27 =>
                 \A x \in 0..(highlight_image.w - 1), y \in 0..(highlight_image.h - 1) :
                     RGB(highlight_image'.px[x][y]) # <<0, 255, 255>>]_vars

\* A recoloured mask with both bands, a highlighted and an empty column
C7_Witness ==
    /\ pc = "compose"
    /\ final_height > 27
    /\ \E x \in 0..(highlight_image.w - 1) : highlight_image.px[x][27] = <<0, 255, 255, 128>>
    /\ \E x \in 0..(highlight_image.w - 1) : highlight_image.px[x][21] = <<128, 0, 128, 0>>

\* Column x of the text canvas has a visible pixel that is not exactly the
\* baseline's colour
HasInk(x) ==
    \E y \in 0..(target_image.h - 1) :
        target_image.px[x][y][4] # 0 /\ target_image.px[x][y] # <<255, 0, 0, 255>>

\* C8: before rescaling, a column of the mask is (0,255,0,128) in every row if
\* the text canvas has ink in that column, and transparent in every row if not.
C8_ColumnsUniform ==
    pc = "resize" =>
        /\ highlight_image.w = target_image.w
        /\ highlight_image.h = target_image.h
        /\ \A x \in 0..(highlight_image.w - 1) :
               IF HasInk(x)
               THEN \A y \in 0..(highlight_image.h - 1) :
                        highlight_image.px[x][y] = <<0, 255, 0, 128>>
               ELSE \A y \in 0..(highlight_image.h - 1) :
                        highlight_image.px[x][y] = <<0, 0, 0, 0>>

\* A mask with a highlighted column, and a column left empty although a glyph
\* painted it (in the baseline's colour) above the baseline row
C8_Witness ==
    /\ pc = "resize"
    /\ \E x \in 0..(target_image.w - 1) : HasInk(x)
    /\ \E x \in 0..(target_image.w - 1) :
           /\ ~HasInk(x)
           /\ \E y \in 0..(target_image.h - 1) :
                  y # base_line /\ target_image.px[x][y] = <<255, 0, 0, 255>>

\* C9 as stated: every glyph is overlaid at an x that is at most the canvas
\* width.
C9_NoGlyphBeyondWidth ==
    \A i \in DOMAIN placed : placed[i].x <= total_width

\* The scenario: the one-record descriptor, text "A", kerning off, scale 1.0,
\* after the placement loop
Scenario1 ==
    /\ pc \in {"resize", "recolor", "compose", "rendered"}
    /\ font_data = load_font_data(<<CharLine(GlyphA)>>).char_data_map
    /\ kerning_pairs = EmptyMap
    /\ text = <<65>>
    /\ ~use_kerning
    /\ scale_factor = [num |-> 1, den |-> 1]

BaselineRowRed(row) ==
    \A x \in 0..(target_image.w - 1) : target_image.px[x][row] = <<255, 0, 0, 255>>

\* C10 as stated: canvas 8 x 18, baseline row 5, the glyph cropped from
\* (1, 0) 6 x 8 and placed at (0, 5).
C10_ScenarioPlacedAtBaseline ==
    Scenario1 =>
        /\ target_image.w = 8 /\ target_image.h = 18
        /\ base_line = 5
        /\ placed = << [crop_x |-> 1, crop_y |-> 0, crop_width |-> 6, crop_height |-> 8,
                        x |-> 0, y |-> 5] >>

\* C10 amended: canvas 8 x 18, the red baseline row is row 5, the glyph is
\* cropped from (1, 0) 6 x 8 and placed at (0, -3), that is at
\* base_line - height - yoffset, so that its last row is row 4.
C10_ScenarioPlacedAboveBaseline ==
    Scenario1 =>
        /\ target_image.w = 8 /\ target_image.h = 18
        /\ base_line = 5
        /\ BaselineRowRed(5)
        /\ placed = << [crop_x |-> 1, crop_y |-> 0, crop_width |-> 6, crop_height |-> 8,
                        x |-> 0, y |-> -3] >>

\* The scenario has been rendered from an atlas with ink in the glyph's cell
C10_Witness ==
    /\ Scenario1
    /\ pc = "rendered"
    /\ font_image = AtlasSolid
    /\ target_image.px[0][4] = White

\* The loop is about to process a code point that has no glyph
AtAbsentChar ==
    /\ pc = "place"
    /\ next_char <= Len(text)
    /\ text[next_char] \notin DOMAIN font_data

\* The kerning pair of the previous and the current code point applies
PairApplies ==
    /\ use_kerning
    /\ last_char_id # <<>>
    /\ <<last_char_id[1], text[next_char]>> \in DOMAIN kerning_pairs

\* C11 as stated: processing a code point without a glyph leaves cursor_x and
\* the text canvas as they were, whatever the kerning table and flag, and
\* raises no error.
C11_AbsentGlyphNoEffect ==
    [][AtAbsentChar =>
          /\ cursor_x' = cursor_x
          /\ target_image' = target_image
          /\ pc' = "place"]_vars

\* C11 amended: processing a code point without a glyph paints nothing, adds
\* no advance and raises no error; cursor_x stays as it was unless the kerning
\* flag is on and the pair (previous code point, this code point) is in the
\* kerning table, and then it becomes max(0, cursor_x + amount); the code point
\* becomes the previous one for the next kerning lookup.
C11_AbsentGlyphOnlyKerns ==
    [][AtAbsentChar =>
          /\ target_image' = target_image
          /\ placed' = placed
          /\ pc' = "place"
          /\ next_char' = next_char + 1
          /\ last_char_id' = <<text[next_char]>>
          /\ cursor_x' = IF PairApplies
                         THEN Max(cursor_x + kerning_pairs[<<last_char_id[1], text[next_char]>>], 0)
                         ELSE cursor_x]_vars

\* A glyph was placed, then a code point without a glyph was processed and
\* its kerning pair moved the cursor off the glyph's advance
C11_Witness ==
    /\ pc = "place"
    /\ Len(text) = 2 /\ next_char = 3
    /\ text[1] \in DOMAIN font_data
    /\ text[2] \notin DOMAIN font_data
    /\ use_kerning
    /\ <<text[1], text[2]>> \in DOMAIN kerning_pairs
    /\ Len(placed) = 1
    /\ cursor_x # saturating_sub(font_data[text[1]].xadvance, 3)

\* The placement loop has run over the whole text
LoopDone ==
    \/ pc = "place" /\ next_char > Len(text)
    \/ pc \in {"resize", "recolor", "compose", "rendered"}

\* C12 as stated: with kerning off, after the loop the canvas is one pixel
\* wider per character with a glyph than the cursor's advance.
C12_WidthIsCursorPlusCount ==
    (LoopDone /\ ~use_kerning) =>
        total_width = cursor_x + Cardinality(Present(font_data, text))

\* The characters whose glyph has an x_advance of at least 3
PresentWide(fd, t) == {i \in Present(fd, t) : fd[t[i]].xadvance >= 3}

\* C12 amended: with kerning off, after the loop total_width = cursor_x + the
\* number of text characters whose glyph has x_advance >= 3 (both reductions
\* saturate at 0, so a glyph of x_advance 0, 1 or 2 adds the same to both);
\* the canvas is one pixel wider per placed glyph exactly when every placed
\* glyph has x_advance >= 3.
C12_WidthIsCursorPlusWideCount ==
    (LoopDone /\ ~use_kerning) =>
        /\ total_width = cursor_x + Cardinality(PresentWide(font_data, text))
        /\ (PresentWide(font_data, text) = Present(font_data, text)
                <=> total_width = cursor_x + Cardinality(Present(font_data, text)))

\* The loop placed a wide and a narrow glyph with kerning off
C12_Witness ==
    /\ LoopDone
    /\ ~use_kerning
    /\ Len(placed) = 2
    /\ PresentWide(font_data, text) # {}
    /\ PresentWide(font_data, text) # Present(font_data, text)

\* C13 as stated: whenever the baseline row is painted (total_width > 0), its
\* index lies inside the text canvas.
C13_BaselineInsideCanvas ==
    (InRender /\ total_width > 0) =>
        /\ 0 <= base_line
        /\ base_line < canvas_height
        /\ pc # "panic"

====
